---- MODULE Spec2Model ----
(***************************************************************************)
(* Model of the fitness tracker's client views and of the store they talk  *)
(* to.  The specifications:                                                *)
(*   SpecGetChange - the progress delta over the lists a load can return   *)
(*   SpecStats     - the dashboard aggregation over fetched workouts       *)
(*   SpecDetail    - src/unnamed/part_000 (WorkoutDetailPage) and store    *)
(*   SpecProgress  - src/app/progress/page.tsx (ProgressPage) and store    *)
(*   SpecHome      - src/app/page.tsx (Home, ExerciseLibrary) and store    *)
(*   SpecStore     - the tables of src/unnamed/part_001 by themselves      *)
(*   SpecLeave     - a page left with calls in flight and visited again    *)
(*   SpecSeq, SpecRace - WorkoutDetailPage, one action at a time / racing  *)
(*   SpecAdds, SpecNav - WorkoutDetailPage, adds only / route changes      *)
(*   SpecSelector  - src/unnamed/part_003 (ExerciseSelector) in its page   *)
(*   SpecCreate    - src/unnamed/part_002 (NewWorkoutDialog) in Home       *)
(*   SpecPartial   - either page, for loads that fail half way             *)
(*   SpecSubmit    - ProgressPage with partly filled forms                 *)
(* A store call is a request that is issued by the view, executed by the   *)
(* store at some later instant and delivered to the view at a still later  *)
(* instant; the code after an `await` runs at delivery.                    *)
(*                                                                         *)
(* Numbers: weight and body_fat_percentage are entered through inputs with *)
(* step="0.1" and are held here in tenths (1780 is 178.0).  Arithmetic on  *)
(* them is exact; the value sets below contain no pair whose percentage    *)
(* falls on a rounding tie, where IEEE doubles could differ from it.       *)
(***************************************************************************)
EXTENDS Integers, Sequences, FiniteSets, Bags, TLC

(***************************************************************************)
(* Bounds                                                                  *)
(***************************************************************************)
MaxEntries == 3        \* entries of a fetched metrics list (SpecGetChange)
MaxMetrics == 2        \* progress_metrics rows the store may hold (SpecProgress)
MaxPInFlight == 2      \* store calls of the progress view in flight
MaxFetched == 3        \* rows of a fetched workouts list (SpecStats)
MaxRows == 2           \* workout_exercises rows ever inserted (SpecDetail, SpecRace)
MaxSeqRows == 4        \* workout_exercises rows ever inserted (SpecSeq)
MaxInFlight == 2       \* store calls of one workout-detail view in flight
MaxStoreRows == 3      \* workout_exercises rows ever inserted (SpecStore)
MaxSelectorRows == 1   \* rows the store accepts in a run of the selector
MaxNInFlight == 2      \* inserts of one NewWorkoutDialog that may be in flight

(***************************************************************************)
(* Nullable values: <<>> is null (or undefined), <<v>> is the value v.     *)
(***************************************************************************)
Null == <<>>
Some(v) == <<v>>
IsNull(x) == x = <<>>
Val(x) == x[1]

Abs(n) == IF n < 0 THEN -n ELSE n

(***************************************************************************)
(* Generic sequence helpers                                                *)
(***************************************************************************)
RemoveAt(s, i) == [j \in 1..(Len(s) - 1) |-> IF j < i THEN s[j] ELSE s[j + 1]]
ReplaceAt(s, i, x) == [s EXCEPT ![i] = x]

VARIABLES
  progress_metrics,   \* store: bag of progress_metrics rows
  metrics,            \* ProgressPage: useState<ProgressMetric[]>([])
  weightChange,       \* ProgressPage: const weightChange of the last render
  bodyFatChange,      \* ProgressPage: const bodyFatChange of the last render
  pLoading,           \* ProgressPage: loading
  showDialog,         \* ProgressPage: showDialog
  formData,           \* ProgressPage: formData
  pMounted,           \* ProgressPage: the component is mounted
  pReqs,              \* ProgressPage: store calls in flight, in issue order
  workouts,           \* store: ids of the workouts rows
  workout_exercises,  \* store: set of workout_exercises rows
  exercises,          \* store: ids of the exercises rows
  nextId,             \* store: the id the next inserted row gets
  idCap,              \* store: the last id this run hands out
  workoutId,          \* WorkoutDetailPage: params.id, per view
  workout,            \* WorkoutDetailPage: workout, per view
  workoutExercises,   \* WorkoutDetailPage: workoutExercises, per view
  showExerciseSelector, \* WorkoutDetailPage: showExerciseSelector, per view
  selectedExercise,   \* ExerciseSelector: selectedExercise, per view
  details,            \* ExerciseSelector: details, per view
  loading,            \* WorkoutDetailPage: loading, per view
  mounted,            \* WorkoutDetailPage: the view is mounted
  reqs,               \* WorkoutDetailPage: store calls in flight, per view
  lastRead,           \* per view: workout and row count of the last answered list read
  stats,              \* Home: stats
  dLoading,           \* Home: loading
  allWorkouts,        \* Home.loadDashboardData: data of the stats select
  now,                \* Home.loadDashboardData: the clock read by new Date()
  dMounted,           \* Home: the component is mounted
  homeWorkouts,       \* Home: workouts (the recent workouts shown)
  hReqs,              \* Home: store calls of loadDashboardData in flight
  categories,         \* ExerciseLibrary: categories
  libExercises,       \* ExerciseLibrary: exercises
  lLoading,           \* ExerciseLibrary: loading
  lMounted,           \* ExerciseLibrary: the component is mounted
  lReqs,              \* ExerciseLibrary: store calls of loadExercises in flight
  nOpen,              \* NewWorkoutDialog: open
  nLoading,           \* NewWorkoutDialog: loading
  nForm,              \* NewWorkoutDialog: formData
  nReqs,              \* NewWorkoutDialog: inserts of handleSubmit in flight
  toast,              \* notification shown by the last step (sonner), "" if none
  errlog              \* console.error message of the last step, "" if none

pvars == <<progress_metrics, metrics, weightChange, bodyFatChange, pLoading, showDialog,
           formData, pMounted, pReqs>>
uivars == <<toast, errlog>>

\* No notification and no log line in this step.
Quiet == toast' = "" /\ errlog' = ""
hvars == <<dMounted, homeWorkouts, hReqs>>
lvars == <<categories, libExercises, lLoading, lMounted, lReqs>>
nvars == <<nOpen, nLoading, nForm, nReqs>>
dvars == <<stats, dLoading, allWorkouts, now, hvars, lvars, nvars>>
storevars == <<workouts, workout_exercises, exercises, nextId, idCap>>
wvars == <<workoutId, workout, workoutExercises, showExerciseSelector, selectedExercise, details,
           loading, mounted, reqs, lastRead>>
vars == <<pvars, dvars, storevars, wvars, uivars>>

(***************************************************************************)
(* Form texts are sequences of characters, as typed into the inputs.       *)
(***************************************************************************)
Digits == <<"0", "1", "2", "3", "4", "5", "6", "7", "8", "9">>
DigitVal(c) == CHOOSE d \in 0..9 : Digits[d + 1] = c
IsDigit(c) == \E d \in 0..9 : Digits[d + 1] = c

\* parseFloat of an input text with at most one decimal digit, in tenths.
RECURSIVE ParseDigits(_, _)
ParseDigits(s, acc) ==
  IF s = <<>> \/ ~IsDigit(Head(s)) THEN acc
  ELSE ParseDigits(Tail(s), acc * 10 + DigitVal(Head(s)))

RECURSIVE DropDigits(_)
DropDigits(s) == IF s = <<>> \/ ~IsDigit(Head(s)) THEN s ELSE DropDigits(Tail(s))

parseFloat(s) ==
  LET whole == ParseDigits(s, 0)
      rest == DropDigits(s)
      frac == IF Len(rest) >= 2 /\ rest[1] = "." /\ IsDigit(rest[2])
              THEN DigitVal(rest[2]) ELSE 0
  IN whole * 10 + frac

Today == 2
Dates == 1..2
EmptyForm == [date |-> Today, weight |-> <<>>, body_fat_percentage |-> <<>>, notes |-> <<>>]

\* What the user may type into the Log Progress form.
FormInputs ==
  { [date |-> 1, weight |-> <<"1","8","0">>, body_fat_percentage |-> <<"1","5",".","2">>, notes |-> <<"o","k">>] }

\* Forms with an input left empty.
PartialForms ==
  { [date |-> 1, weight |-> <<>>, body_fat_percentage |-> <<"1","5",".","2">>, notes |-> <<>>],
    [date |-> 1, weight |-> <<"0">>, body_fat_percentage |-> <<>>, notes |-> <<"o","k">>] }

\* The row handleSubmit inserts for a form.
MetricRow_ZeroForEmpty(f) ==
  [date |-> f.date,
   weight |-> Some(parseFloat(f.weight)),
   body_fat_percentage |-> Some(parseFloat(f.body_fat_percentage)),
   notes |-> IF f.notes # <<>> THEN Some(f.notes) ELSE Null]
MetricRow(f) ==
  [date |-> f.date,
   weight |-> IF f.weight # <<>> THEN Some(parseFloat(f.weight)) ELSE Null,
   body_fat_percentage |-> IF f.body_fat_percentage # <<>>
                           THEN Some(parseFloat(f.body_fat_percentage)) ELSE Null,
   notes |-> IF f.notes # <<>> THEN Some(f.notes) ELSE Null]

(***************************************************************************)
(* Store: select * from progress_metrics order by date ascending.  Rows of *)
(* equal date come back in an order the store does not fix.                *)
(***************************************************************************)
BagRemoveOne(b, r) == b (-) SetToBag({r})

RECURSIVE OrderedByDate(_)
OrderedByDate(b) ==
  IF BagToSet(b) = {} THEN {<<>>}
  ELSE LET lo == CHOOSE d \in Dates :
                   /\ \E r \in BagToSet(b) : r.date = d
                   /\ \A r \in BagToSet(b) : r.date >= d
       IN UNION { { <<r>> \o rest : rest \in OrderedByDate(BagRemoveOne(b, r)) } :
                  r \in { q \in BagToSet(b) : q.date = lo } }

(***************************************************************************)
(* Number.prototype.toFixed(1) of the rational num/den: the sign, then the *)
(* magnitude rounded to the nearest tenth (the larger on a tie), always    *)
(* with one digit after the point.                                         *)
(***************************************************************************)
toFixed1(num, den) ==
  LET neg == num # 0 /\ ((num < 0) # (den < 0))
      a == Abs(num)
      d == Abs(den)
      n == (20 * a + d) \div (2 * d)
  IN (IF neg THEN "-" ELSE "") \o ToString(n \div 10) \o "." \o ToString(n % 10)

\* !x of a number | null
Falsy(x) == IsNull(x) \/ Val(x) = 0

\* Variant of getChange: the length guard is off by one, a single entry is compared with itself.
getChangeOf_OneEntry(m, field) ==
  IF Len(m) < 1 THEN Null
  ELSE LET latest == m[Len(m)]
           previous == m[IF Len(m) = 1 THEN 1 ELSE Len(m) - 1]
           latestValue == latest[field]
           previousValue == previous[field]
       IN IF Falsy(latestValue) \/ Falsy(previousValue) THEN Null
          ELSE LET change == Val(latestValue) - Val(previousValue)
                   percentChange == toFixed1(change * 100, Val(previousValue))
               IN Some([value |-> toFixed1(change, 10),
                        percent |-> percentChange,
                        isPositive |-> change > 0])

\* Variant of getChange: only a null latest value counts as missing.
getChangeOf_LatestZeroOk(m, field) ==
  IF Len(m) < 2 THEN Null
  ELSE LET latest == m[Len(m)]
           previous == m[Len(m) - 1]
           latestValue == latest[field]
           previousValue == previous[field]
       IN IF IsNull(latestValue) \/ Falsy(previousValue) THEN Null
          ELSE LET change == Val(latestValue) - Val(previousValue)
                   percentChange == toFixed1(change * 100, Val(previousValue))
               IN Some([value |-> toFixed1(change, 10),
                        percent |-> percentChange,
                        isPositive |-> change > 0])

\* Variant of getChange: the percentage is taken of the latest value.
getChangeOf_PercentOfLatest(m, field) ==
  IF Len(m) < 2 THEN Null
  ELSE LET latest == m[Len(m)]
           previous == m[Len(m) - 1]
           latestValue == latest[field]
           previousValue == previous[field]
       IN IF Falsy(latestValue) \/ Falsy(previousValue) THEN Null
          ELSE LET change == Val(latestValue) - Val(previousValue)
                   percentChange == toFixed1(change * 100, Val(latestValue))
               IN Some([value |-> toFixed1(change, 10),
                        percent |-> percentChange,
                        isPositive |-> change > 0])

\* Variant of getChange: a change of zero counts as positive.
getChangeOf_NonNegative(m, field) ==
  IF Len(m) < 2 THEN Null
  ELSE LET latest == m[Len(m)]
           previous == m[Len(m) - 1]
           latestValue == latest[field]
           previousValue == previous[field]
       IN IF Falsy(latestValue) \/ Falsy(previousValue) THEN Null
          ELSE LET change == Val(latestValue) - Val(previousValue)
                   percentChange == toFixed1(change * 100, Val(previousValue))
               IN Some([value |-> toFixed1(change, 10),
                        percent |-> percentChange,
                        isPositive |-> change >= 0])

\* Variant of getChange: the latest entry is compared with the first one.
getChangeOf_FirstEntry(m, field) ==
  IF Len(m) < 2 THEN Null
  ELSE LET latest == m[Len(m)]
           previous == m[1]
           latestValue == latest[field]
           previousValue == previous[field]
       IN IF Falsy(latestValue) \/ Falsy(previousValue) THEN Null
          ELSE LET change == Val(latestValue) - Val(previousValue)
                   percentChange == toFixed1(change * 100, Val(previousValue))
               IN Some([value |-> toFixed1(change, 10),
                        percent |-> percentChange,
                        isPositive |-> change > 0])

\* getChange(field) over a metrics list m
getChangeOf(m, field) ==
  IF Len(m) < 2 THEN Null
  ELSE LET latest == m[Len(m)]
           previous == m[Len(m) - 1]
           latestValue == latest[field]
           previousValue == previous[field]
       IN IF Falsy(latestValue) \/ Falsy(previousValue) THEN Null
          ELSE LET change == Val(latestValue) - Val(previousValue)
                   percentChange == toFixed1(change * 100, Val(previousValue))
               IN Some([value |-> toFixed1(change, 10),
                        percent |-> percentChange,
                        isPositive |-> change > 0])

Fields == {"weight", "body_fat_percentage"}

\* React applies a state update made by the continuation of call r only
\* while the component instance that issued r is mounted (r.live); after the
\* unmount the setters do nothing.  The rest of the continuation still runs.
Applies_Always(r) == TRUE
Applies(r) == r.live

\* The calls in flight once their component instance has unmounted.
Orphaned(calls) == [j \in 1..Len(calls) |-> [calls[j] EXCEPT !.live = FALSE]]

\* setMetrics(m) and the render it causes.
SetMetrics(m) ==
  /\ metrics' = m
  /\ weightChange' = getChangeOf(m, "weight")
  /\ bodyFatChange' = getChangeOf(m, "body_fat_percentage")

(***************************************************************************)
(* ProgressPage                                                            *)
(***************************************************************************)
PInit ==
  /\ progress_metrics = EmptyBag
  /\ metrics = <<>>
  /\ weightChange = getChangeOf(<<>>, "weight")
  /\ bodyFatChange = getChangeOf(<<>>, "body_fat_percentage")
  /\ pLoading = TRUE
  /\ showDialog = FALSE
  /\ formData = EmptyForm
  /\ pMounted = FALSE
  /\ pReqs = <<>>

\* loadMetrics up to its await: setLoading(true) and the select is issued.
LoadMetricsIssue(calls) ==
  calls \o <<[op |-> "select", stage |-> "sent", row |-> Null, data |-> <<>>, live |-> TRUE]>>

\* useEffect(() => { loadMetrics() }, [])
PMount ==
  /\ ~pMounted
  /\ Len(pReqs) < MaxPInFlight
  /\ pMounted' = TRUE
  /\ SetMetrics(<<>>)
  /\ showDialog' = FALSE
  /\ formData' = EmptyForm
  /\ pLoading' = TRUE
  /\ pReqs' = LoadMetricsIssue(pReqs)
  /\ UNCHANGED progress_metrics
  /\ Quiet

\* the user leaves the page: the component unmounts, its calls stay in flight
PUnmount ==
  /\ pMounted
  /\ pMounted' = FALSE
  /\ pReqs' = Orphaned(pReqs)
  /\ UNCHANGED <<progress_metrics, metrics, weightChange, bodyFatChange, pLoading, showDialog, formData>>
  /\ Quiet

\* Dialog onOpenChange / the Cancel button
PSetShowDialog(b) ==
  /\ pMounted
  /\ showDialog # b
  /\ showDialog' = b
  /\ UNCHANGED <<progress_metrics, metrics, weightChange, bodyFatChange, pLoading, formData, pMounted, pReqs>>
  /\ Quiet

\* the inputs' onChange handlers
PEditForm(f) ==
  /\ pMounted /\ showDialog
  /\ formData # f
  /\ formData' = f
  /\ UNCHANGED <<progress_metrics, metrics, weightChange, bodyFatChange, pLoading, showDialog, pMounted, pReqs>>
  /\ Quiet

\* handleSubmit up to its await: the insert is issued with the form's values.
PSubmit ==
  /\ pMounted /\ showDialog
  /\ Len(pReqs) < MaxPInFlight
  /\ pReqs' = pReqs \o <<[op |-> "insert", stage |-> "sent", row |-> Some(MetricRow(formData)),
                          data |-> <<>>, live |-> TRUE]>>
  /\ UNCHANGED <<progress_metrics, metrics, weightChange, bodyFatChange, pLoading, showDialog, formData, pMounted>>
  /\ Quiet

\* The store executes a select: a snapshot in date order, or an error.
PServeSelect(i) ==
  /\ i \in 1..Len(pReqs)
  /\ pReqs[i].op = "select" /\ pReqs[i].stage = "sent"
  /\ \/ \E d \in OrderedByDate(progress_metrics) :
          pReqs' = ReplaceAt(pReqs, i, [pReqs[i] EXCEPT !.stage = "ok", !.data = d])
     \/ pReqs' = ReplaceAt(pReqs, i, [pReqs[i] EXCEPT !.stage = "error"])
  /\ UNCHANGED <<progress_metrics, metrics, weightChange, bodyFatChange, pLoading, showDialog, formData, pMounted>>
  /\ Quiet

\* The store executes an insert: the row is added, or an error is returned.
PServeInsert(i) ==
  /\ i \in 1..Len(pReqs)
  /\ pReqs[i].op = "insert" /\ pReqs[i].stage = "sent"
  /\ \/ /\ BagCardinality(progress_metrics) < MaxMetrics
        /\ progress_metrics' = progress_metrics (+) SetToBag({Val(pReqs[i].row)})
        /\ pReqs' = ReplaceAt(pReqs, i, [pReqs[i] EXCEPT !.stage = "ok"])
     \/ /\ pReqs' = ReplaceAt(pReqs, i, [pReqs[i] EXCEPT !.stage = "error"])
        /\ UNCHANGED progress_metrics
  /\ UNCHANGED <<metrics, weightChange, bodyFatChange, pLoading, showDialog, formData, pMounted>>
  /\ Quiet

\* loadMetrics after its await
PDeliverSelect(i) ==
  /\ i \in 1..Len(pReqs)
  /\ pReqs[i].op = "select" /\ pReqs[i].stage # "sent"
  /\ IF pReqs[i].stage = "ok"
     THEN /\ IF Applies(pReqs[i]) THEN SetMetrics(pReqs[i].data)
             ELSE UNCHANGED <<metrics, weightChange, bodyFatChange>>
          /\ Quiet
     ELSE /\ errlog' = "Error loading metrics:"
          /\ toast' = "Failed to load progress data"
          /\ UNCHANGED <<metrics, weightChange, bodyFatChange>>
  /\ pLoading' = (IF Applies(pReqs[i]) THEN FALSE ELSE pLoading)
  /\ pReqs' = RemoveAt(pReqs, i)
  /\ UNCHANGED <<progress_metrics, showDialog, formData, pMounted>>

\* handleSubmit after its await
PDeliverInsert(i) ==
  /\ i \in 1..Len(pReqs)
  /\ pReqs[i].op = "insert" /\ pReqs[i].stage # "sent"
  /\ IF pReqs[i].stage = "ok"
     THEN /\ toast' = "Progress recorded!"
          /\ showDialog' = (IF Applies(pReqs[i]) THEN FALSE ELSE showDialog)
          /\ formData' = (IF Applies(pReqs[i]) THEN EmptyForm ELSE formData)
          /\ pLoading' = (IF Applies(pReqs[i]) THEN TRUE ELSE pLoading)
          /\ pReqs' = RemoveAt(pReqs, i) \o
                        (IF pReqs[i].live THEN LoadMetricsIssue(<<>>) ELSE Orphaned(LoadMetricsIssue(<<>>)))
          /\ errlog' = ""
     ELSE /\ errlog' = "Error saving metric:"
          /\ toast' = "Failed to save progress"
          /\ pReqs' = RemoveAt(pReqs, i)
          /\ UNCHANGED <<showDialog, formData, pLoading>>
  /\ UNCHANGED <<progress_metrics, metrics, weightChange, bodyFatChange, pMounted>>

PNext ==
  /\ \/ PMount
     \/ \E b \in BOOLEAN : PSetShowDialog(b)
     \/ \E f \in FormInputs : PEditForm(f)
     \/ PSubmit
     \/ \E i \in 1..MaxPInFlight : PServeSelect(i)
     \/ \E i \in 1..MaxPInFlight : PServeInsert(i)
     \/ \E i \in 1..MaxPInFlight : PDeliverSelect(i)
     \/ \E i \in 1..MaxPInFlight : PDeliverInsert(i)
  /\ UNCHANGED <<dvars, storevars, wvars>>

(***************************************************************************)
(* WorkoutDetailPage (src/unnamed/part_000) and the workouts and           *)
(* workout_exercises tables.  Several views (browser tabs) share the       *)
(* store.                                                                  *)
(***************************************************************************)
AllViews == {"a", "b"}                      \* the views (browser tabs) there may be
Views == DOMAIN mounted                     \* the views of this run
StoredWorkouts == {"w1", "w2"}              \* workouts that exist
RouteIds == StoredWorkouts \cup {"w3"}      \* ids a route may name
Exercises == {"e1"}
DefaultDetails == [sets |-> 3, reps |-> 10, weight |-> 0]

\* A store call in flight.  fresh: the view's exercise list has not been set
\* since the call was issued.
NoReq == [op |-> "none", stage |-> "sent", wid |-> "w1", row |-> Null, id |-> 0, data |-> Null,
          fresh |-> TRUE, live |-> TRUE]

\* .delete().eq("id", i): the table without the row of id i
AfterDelete_Reindexed(i) ==
  { [x EXCEPT !.order_index =
       IF \E d \in workout_exercises :
            d.id = i /\ d.workout_id = x.workout_id /\ d.order_index < x.order_index
       THEN @ - 1 ELSE @] : x \in { y \in workout_exercises : y.id # i } }
AfterDelete(i) == { x \in workout_exercises : x.id # i }

RowsOf_All(w) == workout_exercises
RowsOf(w) == { r \in workout_exercises : r.workout_id = w }

\* .eq("workout_id", w).order("order_index"): rows of equal order_index come
\* back in an order the store does not fix.
RECURSIVE OrderedByIndex(_)
OrderedByIndex(rows) ==
  IF rows = {} THEN {<<>>}
  ELSE LET firsts == { r \in rows : \A q \in rows : r.order_index <= q.order_index }
       IN UNION { { <<r>> \o rest : rest \in OrderedByIndex(rows \ {r}) } : r \in firsts }

\* The store after the workouts were created, and the views V before mount,
\* each on a route with an id of ids.
WInitOf(V, ids, cap) ==
  /\ workouts = StoredWorkouts
  /\ workout_exercises = {}
  /\ exercises = Exercises
  /\ nextId = 1
  /\ idCap = cap
  /\ workoutId \in [V -> ids]
  /\ workout = [v \in V |-> Null]
  /\ workoutExercises = [v \in V |-> <<>>]
  /\ showExerciseSelector = [v \in V |-> FALSE]
  /\ selectedExercise = [v \in V |-> Null]
  /\ details = [v \in V |-> DefaultDetails]
  /\ loading = [v \in V |-> TRUE]
  /\ mounted = [v \in V |-> FALSE]
  /\ reqs = [v \in V |-> <<>>]
  /\ lastRead = [v \in V |-> Null]

WInit == WInitOf({"a"}, {"w1"}, MaxRows)

\* loadWorkoutData up to its first await, for the workoutId of the closure
WorkoutSelect(w) == [NoReq EXCEPT !.op = "selectWorkout", !.wid = w]
ExercisesSelect(w) == [NoReq EXCEPT !.op = "selectExercises", !.wid = w]

\* The page shows the workout (neither "Loading workout..." nor "Workout not
\* found"), so its buttons and the ExerciseSelector are there.
Shown(v) == mounted[v] /\ ~loading[v] /\ workout[v] # Null

\* The calls in flight once the view's exercise list has been set.
Stale(calls) == [j \in 1..Len(calls) |-> [calls[j] EXCEPT !.fresh = FALSE]]

\* order_index: workoutExercises.length
NextOrderIndex_Pending(v) ==
  Len(workoutExercises[v]) + Cardinality({i \in 1..Len(reqs[v]) : reqs[v][i].op = "insert"})
NextOrderIndex_OneBased(v) == Len(workoutExercises[v]) + 1
NextOrderIndex(v) == Len(workoutExercises[v])

\* The state of a new ExerciseSelector.  The page renders the selector only
\* when it shows the workout, so a page that starts loading drops the
\* selector it had and mounts a new one afterwards.
SelectorFresh(v) ==
  /\ selectedExercise' = [selectedExercise EXCEPT ![v] = Null]
  /\ details' = [details EXCEPT ![v] = DefaultDetails]

\* useEffect(() => { loadWorkoutData() }, [workoutId]) at mount
WMount(v) ==
  /\ ~mounted[v]
  /\ Len(reqs[v]) < MaxInFlight
  /\ mounted' = [mounted EXCEPT ![v] = TRUE]
  /\ loading' = [loading EXCEPT ![v] = TRUE]
  /\ workout' = [workout EXCEPT ![v] = Null]
  /\ workoutExercises' = [workoutExercises EXCEPT ![v] = <<>>]
  /\ showExerciseSelector' = [showExerciseSelector EXCEPT ![v] = FALSE]
  /\ lastRead' = [lastRead EXCEPT ![v] = Null]
  /\ reqs' = [reqs EXCEPT ![v] = Append(@, WorkoutSelect(workoutId[v]))]
  /\ SelectorFresh(v)
  /\ Quiet
  /\ UNCHANGED <<storevars, workoutId>>

\* the user leaves the page: the component unmounts, its calls stay in flight
WUnmount(v) ==
  /\ mounted[v]
  /\ mounted' = [mounted EXCEPT ![v] = FALSE]
  /\ reqs' = [reqs EXCEPT ![v] = Orphaned(@)]
  /\ Quiet
  /\ UNCHANGED <<storevars, workoutId, workout, workoutExercises, showExerciseSelector, selectedExercise,
                 details, loading, lastRead>>

\* the route's id changes: the effect runs again
WNavigate(v, w) ==
  /\ mounted[v]
  /\ w # workoutId[v]
  /\ Len(reqs[v]) < MaxInFlight
  /\ workoutId' = [workoutId EXCEPT ![v] = w]
  /\ loading' = [loading EXCEPT ![v] = TRUE]
  /\ reqs' = [reqs EXCEPT ![v] = Append(@, WorkoutSelect(w))]
  /\ SelectorFresh(v)
  /\ Quiet
  /\ UNCHANGED <<storevars, workout, workoutExercises, showExerciseSelector, mounted, lastRead>>

\* the Add Exercise button and the dialog's onOpenChange
WSetShowExerciseSelector(v, b) ==
  /\ Shown(v)
  /\ showExerciseSelector[v] # b
  /\ showExerciseSelector' = [showExerciseSelector EXCEPT ![v] = b]
  /\ Quiet
  /\ UNCHANGED <<storevars, workoutId, workout, workoutExercises, selectedExercise, details, loading,
                 mounted, reqs, lastRead>>

\* ExerciseSelector.handleAddExercise with exercise e selected, and
\* handleAddExercise up to its await
WAddExercise(v, e) ==
  /\ Shown(v)
  /\ showExerciseSelector[v]
  /\ Len(reqs[v]) < MaxInFlight
  /\ reqs' = [reqs EXCEPT ![v] = Append(@,
               [NoReq EXCEPT !.op = "insert", !.wid = workoutId[v],
                  !.row = Some([workout_id |-> workoutId[v], exercise_id |-> e,
                                sets |-> DefaultDetails.sets, reps |-> DefaultDetails.reps,
                                weight |-> DefaultDetails.weight,
                                order_index |-> NextOrderIndex(v)])])]
  /\ showExerciseSelector' = [showExerciseSelector EXCEPT ![v] = FALSE]
  /\ SelectorFresh(v)
  /\ Quiet
  /\ UNCHANGED <<storevars, workoutId, workout, workoutExercises, loading, mounted, lastRead>>

\* handleDeleteExercise(we.id) for the k-th listed exercise, up to its await
WDeleteExercise(v, k) ==
  /\ Shown(v)
  /\ k \in 1..Len(workoutExercises[v])
  /\ Len(reqs[v]) < MaxInFlight
  /\ reqs' = [reqs EXCEPT ![v] = Append(@,
               [NoReq EXCEPT !.op = "delete", !.wid = workoutId[v],
                             !.id = workoutExercises[v][k].id])]
  /\ Quiet
  /\ UNCHANGED <<storevars, workoutId, workout, workoutExercises, showExerciseSelector, selectedExercise,
                 details, loading, mounted, lastRead>>

\* The store executes the i-th call of view v and answers without an error.
WServe(v, i) ==
  /\ i \in 1..Len(reqs[v])
  /\ reqs[v][i].stage = "sent"
  /\ LET r == reqs[v][i]
         done(x) == reqs' = [reqs EXCEPT ![v] = ReplaceAt(@, i, x)]
     IN CASE r.op = "selectWorkout" ->
               /\ done([r EXCEPT !.stage = "ok",
                                 !.data = IF r.wid \in workouts THEN Some(r.wid) ELSE Null])
               /\ UNCHANGED storevars
          [] r.op = "selectExercises" ->
               /\ \E d \in OrderedByIndex(RowsOf(r.wid)) :
                    done([r EXCEPT !.stage = "ok", !.data = Some(d)])
               /\ UNCHANGED storevars
          [] r.op = "insert" ->
               /\ r.wid \in workouts
               /\ Val(r.row).exercise_id \in exercises
               /\ nextId <= idCap
               /\ workout_exercises' = workout_exercises \cup
                    { [id |-> nextId, workout_id |-> Val(r.row).workout_id,
                       exercise_id |-> Val(r.row).exercise_id, sets |-> Val(r.row).sets,
                       reps |-> Val(r.row).reps, weight |-> Val(r.row).weight,
                       order_index |-> Val(r.row).order_index] }
               /\ nextId' = nextId + 1
               /\ done([r EXCEPT !.stage = "ok"])
               /\ UNCHANGED <<workouts, exercises, idCap>>
          [] r.op = "delete" ->
               /\ workout_exercises' = AfterDelete(r.id)
               /\ done([r EXCEPT !.stage = "ok"])
               /\ UNCHANGED <<workouts, exercises, nextId, idCap>>
  /\ Quiet
  /\ UNCHANGED <<workoutId, workout, workoutExercises, showExerciseSelector, selectedExercise, details,
                 loading, mounted, lastRead>>

\* The answer to the i-th call of view v arrives: the code after the await.
WDeliver(v, i) ==
  /\ i \in 1..Len(reqs[v])
  /\ reqs[v][i].stage = "ok"
  /\ LET r == reqs[v][i]
     IN CASE r.op = "selectWorkout" ->
               /\ workout' = [workout EXCEPT ![v] = IF Applies(r) THEN r.data ELSE @]
               /\ reqs' = [reqs EXCEPT ![v] =
                             ReplaceAt(@, i, [ExercisesSelect(r.wid) EXCEPT !.live = r.live])]
               /\ Quiet
               /\ UNCHANGED <<workoutExercises, loading, lastRead>>
          [] r.op = "selectExercises" /\ Applies(r) ->
               /\ workoutExercises' = [workoutExercises EXCEPT ![v] = Val(r.data)]
               /\ lastRead' = [lastRead EXCEPT ![v] = Some([wid |-> r.wid, count |-> Len(Val(r.data))])]
               /\ loading' = [loading EXCEPT ![v] = FALSE]
               /\ reqs' = [reqs EXCEPT ![v] = Stale(RemoveAt(@, i))]
               /\ Quiet
               /\ UNCHANGED workout
          [] r.op = "selectExercises" /\ ~Applies(r) ->
               /\ reqs' = [reqs EXCEPT ![v] = RemoveAt(@, i)]
               /\ Quiet
               /\ UNCHANGED <<workout, workoutExercises, loading, lastRead>>
          [] r.op \in {"insert", "delete"} ->
               /\ toast' = (IF r.op = "insert" THEN "Exercise added!" ELSE "Exercise removed")
               /\ errlog' = ""
               /\ loading' = [loading EXCEPT ![v] = IF Applies(r) THEN TRUE ELSE @]
               /\ reqs' = [reqs EXCEPT ![v] =
                             Append(RemoveAt(@, i), [WorkoutSelect(r.wid) EXCEPT !.live = r.live])]
               /\ UNCHANGED <<workout, workoutExercises, lastRead>>
  /\ IF reqs[v][i].op \in {"insert", "delete"} /\ Applies(reqs[v][i])
     THEN SelectorFresh(v)
     ELSE UNCHANGED <<selectedExercise, details>>
  /\ UNCHANGED <<storevars, workoutId, showExerciseSelector, mounted>>

\* The i-th call of view v fails (the store returns an error or the request
\* throws) without effect on the store: the catch and finally blocks.
WFail(v, i) ==
  /\ i \in 1..Len(reqs[v])
  /\ reqs[v][i].stage = "sent"
  /\ LET r == reqs[v][i]
     IN /\ reqs' = [reqs EXCEPT ![v] = RemoveAt(@, i)]
        /\ CASE r.op \in {"selectWorkout", "selectExercises"} ->
                  /\ errlog' = "Error loading workout:"
                  /\ toast' = "Failed to load workout"
                  /\ loading' = [loading EXCEPT ![v] = IF Applies(r) THEN FALSE ELSE @]
                  /\ lastRead' = [lastRead EXCEPT ![v] =
                                    IF r.op = "selectExercises" /\ Applies(r)
                                    THEN Some([wid |-> r.wid, count |-> Cardinality(RowsOf(r.wid))])
                                    ELSE @]
             [] r.op = "insert" ->
                  /\ errlog' = "Error adding exercise:"
                  /\ toast' = "Failed to add exercise"
                  /\ UNCHANGED <<loading, lastRead>>
             [] r.op = "delete" ->
                  /\ errlog' = "Error deleting exercise:"
                  /\ toast' = "Failed to remove exercise"
                  /\ UNCHANGED <<loading, lastRead>>
  /\ UNCHANGED <<storevars, workoutId, workout, workoutExercises, showExerciseSelector, selectedExercise,
                 details, mounted>>

\* The view has no store call in flight.
Idle(v) == reqs[v] = <<>>

WNext ==
  /\ \/ \E v \in Views : WMount(v)
     \/ \E v \in Views, b \in BOOLEAN : WSetShowExerciseSelector(v, b)
     \/ \E v \in Views, e \in Exercises : WAddExercise(v, e)
     \/ \E v \in Views, k \in 1..MaxRows : WDeleteExercise(v, k)
     \/ \E v \in Views, i \in 1..MaxInFlight : WServe(v, i)
     \/ \E v \in Views, i \in 1..MaxInFlight : WDeliver(v, i)
     \/ \E v \in Views, i \in 1..MaxInFlight : WFail(v, i)
  /\ UNCHANGED <<pvars, dvars>>

(***************************************************************************)
(* JavaScript values met by the dashboard arithmetic                       *)
(***************************************************************************)
Num(n) == [t |-> "number", v |-> n]
JsNull == [t |-> "null"]
JsUndefined == [t |-> "undefined"]
NaN == [t |-> "NaN"]

\* ToNumber
ToNumber(x) ==
  IF x.t = "number" THEN x
  ELSE IF x.t = "null" THEN Num(0)
  ELSE NaN

\* a + b on numbers, null and undefined
JsAdd(a, b) ==
  LET x == ToNumber(a)
      y == ToNumber(b)
  IN IF x.t = "NaN" \/ y.t = "NaN" THEN NaN ELSE Num(x.v + y.v)

\* x || 0, as an integer
OrZero_One(x) == IF x.t = "number" /\ x.v # 0 THEN x.v ELSE 1
OrZero(x) == IF x.t = "number" /\ x.v # 0 THEN x.v ELSE 0

\* Math.round(n / d) for d > 0: the nearest integer, the larger on a tie
MathRound_Floor(n, d) == n \div d
MathRound(n, d) == (2 * n + d) \div (2 * d)

(***************************************************************************)
(* Home: the aggregation of loadDashboardData.  Dates are day numbers and  *)
(* instants are counted in ticks; new Date("YYYY-MM-DD") is that day's     *)
(* midnight.                                                               *)
(***************************************************************************)
TicksPerDay == 2

\* NewWorkoutDialog's initial formData; the date is today's
NewWorkoutForm == [name |-> <<>>, date |-> 9, duration_minutes |-> 60, notes |-> <<>>]
WeekDays == 7
ZeroStats == [totalWorkouts |-> 0, thisWeekWorkouts |-> 0, totalMinutes |-> 0, avgDuration |-> 0]

DateInstant(date) == date * TicksPerDay

\* allWorkouts.reduce((sum, w) => sum + w.duration_minutes, 0)
RECURSIVE ReduceDurations(_, _)
ReduceDurations(ws, sum) ==
  IF ws = <<>> THEN sum
  ELSE ReduceDurations(Tail(ws), JsAdd(sum, Head(ws).duration_minutes))

\* ws.filter(w => new Date(w.date) >= oneWeekAgo).length, where oneWeekAgo is
\* the clock set back by `days` days (setDate(getDate() - days))
CountSince_UntilNow(ws, clock, days) ==
  Cardinality({i \in 1..Len(ws) : /\ DateInstant(ws[i].date) >= clock - days * TicksPerDay
                                  /\ DateInstant(ws[i].date) <= clock})
CountSince_Before(ws, clock, days) ==
  Cardinality({i \in 1..Len(ws) : DateInstant(ws[i].date) <= clock - days * TicksPerDay})
CountSince(ws, clock, days) ==
  Cardinality({i \in 1..Len(ws) : DateInstant(ws[i].date) >= clock - days * TicksPerDay})

\* the stats loadDashboardData sets from the data of the stats select
ComputeStats(data, clock) ==
  LET totalWorkouts == IF IsNull(data) THEN 0 ELSE Len(Val(data))
      totalMinutes == IF IsNull(data) THEN 0 ELSE OrZero(ReduceDurations(Val(data), Num(0)))
      avgDuration == IF totalWorkouts > 0 THEN MathRound(totalMinutes, totalWorkouts) ELSE 0
      thisWeekWorkouts == IF IsNull(data) THEN 0 ELSE OrZero(Num(CountSince(Val(data), clock, WeekDays)))
  IN [totalWorkouts |-> totalWorkouts,
      thisWeekWorkouts |-> thisWeekWorkouts,
      totalMinutes |-> totalMinutes,
      avgDuration |-> avgDuration]

DInit ==
  /\ stats = ZeroStats
  /\ dLoading = TRUE
  /\ allWorkouts = Null
  /\ now = 0
  /\ dMounted = FALSE
  /\ homeWorkouts = <<>>
  /\ hReqs = <<>>
  /\ categories = <<>>
  /\ libExercises = <<>>
  /\ lLoading = TRUE
  /\ lMounted = FALSE
  /\ lReqs = <<>>
  /\ nOpen = FALSE
  /\ nLoading = FALSE
  /\ nForm = NewWorkoutForm
  /\ nReqs = <<>>

Init ==
  /\ PInit
  /\ DInit
  /\ WInit
  /\ toast = ""
  /\ errlog = ""

SpecProgress == Init /\ [][PNext]_vars

\* One view of a workout, or of a route whose workout does not exist.
DetailInit ==
  /\ PInit
  /\ DInit
  /\ WInitOf({"a"}, {"w1", "w3"}, MaxRows)
  /\ toast = ""
  /\ errlog = ""

SpecDetail == DetailInit /\ [][WNext]_vars

\* One view, every action issued after the previous one's reload has
\* completed, no store call failing.
SeqInit ==
  /\ PInit
  /\ DInit
  /\ WInitOf({"a"}, {"w1"}, MaxSeqRows)
  /\ toast = ""
  /\ errlog = ""

SeqNext ==
  /\ \/ \E v \in Views : WMount(v)
     \/ \E v \in Views, b \in BOOLEAN : Idle(v) /\ WSetShowExerciseSelector(v, b)
     \/ \E v \in Views, e \in Exercises : Idle(v) /\ WAddExercise(v, e)
     \/ \E v \in Views, k \in 1..MaxSeqRows : Idle(v) /\ WDeleteExercise(v, k)
     \/ \E v \in Views, i \in 1..MaxInFlight : WServe(v, i)
     \/ \E v \in Views, i \in 1..MaxInFlight : WDeliver(v, i)
  /\ UNCHANGED <<pvars, dvars>>

SpecSeq == SeqInit /\ [][SeqNext]_vars

(***************************************************************************)
(* ExerciseSelector (src/unnamed/part_003), the dialog of the detail page  *)
(* whose onSelectExercise is the page's handleAddExercise.                 *)
(***************************************************************************)
DetailFields == {"sets", "reps", "weight"}
EditedFields == {"sets", "weight"}          \* the inputs a run types into (reps is handled as sets)
DetailTexts == {"", "4"}                    \* what may be typed into a details input

\* parseInt / parseFloat of the text of a number input
ParseNumber(t) == IF t = "" THEN NaN ELSE Num(4)

\* x || 1
OrOne(x) == IF x.t = "number" /\ x.v # 0 THEN x.v ELSE 1

\* the row handleAddExercise of view v inserts for exercise e with details d
NewExerciseRow_DefaultDetails(v, e, d) ==
  [workout_id |-> workoutId[v], exercise_id |-> e,
   sets |-> DefaultDetails.sets, reps |-> DefaultDetails.reps, weight |-> DefaultDetails.weight,
   order_index |-> NextOrderIndex(v)]
NewExerciseRow(v, e, d) ==
  [workout_id |-> workoutId[v], exercise_id |-> e,
   sets |-> d.sets, reps |-> d.reps, weight |-> d.weight,
   order_index |-> NextOrderIndex(v)]

\* The selector of view v is on screen.
SelectorOpen(v) == Shown(v) /\ showExerciseSelector[v]

\* onClick of an exercise of the list (the list is there while none is selected)
XSelectExercise(v, e) ==
  /\ SelectorOpen(v)
  /\ selectedExercise[v] = Null
  /\ e \in exercises
  /\ selectedExercise' = [selectedExercise EXCEPT ![v] = Some(e)]
  /\ Quiet
  /\ UNCHANGED <<storevars, workoutId, workout, workoutExercises, showExerciseSelector, details, loading,
                 mounted, reqs, lastRead>>

\* the Back button
XBack(v) ==
  /\ SelectorOpen(v)
  /\ selectedExercise[v] # Null
  /\ selectedExercise' = [selectedExercise EXCEPT ![v] = Null]
  /\ Quiet
  /\ UNCHANGED <<storevars, workoutId, workout, workoutExercises, showExerciseSelector, details, loading,
                 mounted, reqs, lastRead>>

\* onChange of the input of field f with text t
XSetDetails(v, f, t) ==
  /\ SelectorOpen(v)
  /\ selectedExercise[v] # Null
  /\ details' = [details EXCEPT ![v] =
                   CASE f = "sets" -> [@ EXCEPT !.sets = OrOne(ParseNumber(t))]
                     [] f = "reps" -> [@ EXCEPT !.reps = OrOne(ParseNumber(t))]
                     [] f = "weight" -> [@ EXCEPT !.weight = OrZero(ParseNumber(t))]]
  /\ details'[v] # details[v]
  /\ Quiet
  /\ UNCHANGED <<storevars, workoutId, workout, workoutExercises, showExerciseSelector, selectedExercise,
                 loading, mounted, reqs, lastRead>>

\* ExerciseSelector.handleAddExercise, and with an exercise selected the
\* page's handleAddExercise up to its await
XHandleAddExercise(v) ==
  /\ SelectorOpen(v)
  /\ IF selectedExercise[v] # Null
     THEN /\ Len(reqs[v]) < MaxInFlight
          /\ reqs' = [reqs EXCEPT ![v] = Append(@,
                       [NoReq EXCEPT !.op = "insert", !.wid = workoutId[v],
                          !.row = Some(NewExerciseRow(v, Val(selectedExercise[v]), details[v]))])]
          /\ SelectorFresh(v)
          /\ showExerciseSelector' = [showExerciseSelector EXCEPT ![v] = FALSE]
     ELSE UNCHANGED <<reqs, selectedExercise, details, showExerciseSelector>>
  /\ Quiet
  /\ UNCHANGED <<storevars, workoutId, workout, workoutExercises, loading, mounted, lastRead>>

\* One view whose exercises are added through the selector.
SelectorNext ==
  /\ \/ \E v \in Views : WMount(v)
     \/ \E v \in Views, b \in BOOLEAN : WSetShowExerciseSelector(v, b)
     \/ \E v \in Views, e \in Exercises : XSelectExercise(v, e)
     \/ \E v \in Views : XBack(v)
     \/ \E v \in Views, f \in EditedFields, t \in DetailTexts : XSetDetails(v, f, t)
     \/ \E v \in Views : XHandleAddExercise(v)
     \/ \E v \in Views, i \in 1..MaxInFlight : WServe(v, i)
     \/ \E v \in Views, i \in 1..MaxInFlight : WDeliver(v, i)
     \/ \E v \in Views, i \in 1..MaxInFlight : WFail(v, i)
  /\ UNCHANGED <<pvars, dvars>>

SelectorInit ==
  /\ PInit
  /\ DInit
  /\ WInitOf({"a"}, {"w1"}, MaxSelectorRows)
  /\ toast = ""
  /\ errlog = ""

SpecSelector == SelectorInit /\ [][SelectorNext]_vars

\* One view that only adds exercises, each add issued after the insert and
\* the reload of the previous one have completed, no store call failing.
AddsNext ==
  /\ \/ \E v \in Views : WMount(v)
     \/ \E v \in Views, b \in BOOLEAN : Idle(v) /\ WSetShowExerciseSelector(v, b)
     \/ \E v \in Views, e \in Exercises : Idle(v) /\ XSelectExercise(v, e)
     \/ \E v \in Views, t \in DetailTexts : Idle(v) /\ XSetDetails(v, "weight", t)
     \/ \E v \in Views : Idle(v) /\ XHandleAddExercise(v)
     \/ \E v \in Views, i \in 1..MaxInFlight : WServe(v, i)
     \/ \E v \in Views, i \in 1..MaxInFlight : WDeliver(v, i)
  /\ UNCHANGED <<pvars, dvars>>

SpecAdds == SeqInit /\ [][AddsNext]_vars

\* Two views of the same workout adding exercises, no store call failing.
RaceInit ==
  /\ PInit
  /\ DInit
  /\ WInitOf(AllViews, {"w1"}, MaxRows)
  /\ toast = ""
  /\ errlog = ""

RaceNext ==
  /\ \/ \E v \in Views : WMount(v)
     \/ \E v \in Views, b \in BOOLEAN : WSetShowExerciseSelector(v, b)
     \/ \E v \in Views, e \in Exercises : WAddExercise(v, e)
     \/ \E v \in Views, i \in 1..MaxInFlight : WServe(v, i)
     \/ \E v \in Views, i \in 1..MaxInFlight : WDeliver(v, i)
  /\ UNCHANGED <<pvars, dvars>>

SpecRace == RaceInit /\ [][RaceNext]_vars

(***************************************************************************)
(* The tables by themselves: any client may create and delete workouts and *)
(* insert and delete workout_exercises (policies FOR ALL), and may insert  *)
(* exercises (policy FOR INSERT; no policy lets a client delete one).      *)
(***************************************************************************)
ExerciseIds == Exercises \cup {"e2"}
OrderIndexes == 0..1

\* insert into workouts: the row gets a new id
SCreateWorkout(w) ==
  /\ w \notin workouts
  /\ workouts' = workouts \cup {w}
  /\ UNCHANGED <<workout_exercises, exercises, nextId, idCap>>

\* delete from workouts where id = w; workout_exercises.workout_id
\* REFERENCES workouts(id) ON DELETE CASCADE
SDeleteWorkout_NoCascade(w) ==
  /\ w \in workouts
  /\ workouts' = workouts \ {w}
  /\ UNCHANGED <<workout_exercises, exercises, nextId, idCap>>
SDeleteWorkout(w) ==
  /\ w \in workouts
  /\ workouts' = workouts \ {w}
  /\ workout_exercises' = { r \in workout_exercises : r.workout_id # w }
  /\ UNCHANGED <<exercises, nextId, idCap>>

\* insert into workout_exercises: both foreign keys must name a row
SInsertWorkoutExercise(w, e, k) ==
  /\ w \in workouts
  /\ e \in exercises
  /\ nextId <= idCap
  /\ workout_exercises' = workout_exercises \cup
       { [id |-> nextId, workout_id |-> w, exercise_id |-> e, sets |-> DefaultDetails.sets,
          reps |-> DefaultDetails.reps, weight |-> DefaultDetails.weight, order_index |-> k] }
  /\ nextId' = nextId + 1
  /\ UNCHANGED <<workouts, exercises, idCap>>

\* delete from workout_exercises where id = i
SDeleteWorkoutExercise(i) ==
  /\ \E r \in workout_exercises : r.id = i
  /\ workout_exercises' = AfterDelete(i)
  /\ UNCHANGED <<workouts, exercises, nextId, idCap>>

\* insert into exercises
SInsertExercise(e) ==
  /\ e \notin exercises
  /\ exercises' = exercises \cup {e}
  /\ UNCHANGED <<workouts, workout_exercises, nextId, idCap>>

StoreInit ==
  /\ PInit
  /\ DInit
  /\ WInitOf({"a"}, {"w1"}, MaxStoreRows)
  /\ toast = ""
  /\ errlog = ""

StoreNext ==
  /\ \/ \E w \in RouteIds : SCreateWorkout(w)
     \/ \E w \in RouteIds : SDeleteWorkout(w)
     \/ \E w \in RouteIds, e \in ExerciseIds, k \in OrderIndexes : SInsertWorkoutExercise(w, e, k)
     \/ \E i \in 1..MaxStoreRows : SDeleteWorkoutExercise(i)
     \/ \E e \in ExerciseIds : SInsertExercise(e)
  /\ UNCHANGED <<pvars, dvars, wvars, uivars>>

SpecStore == StoreInit /\ [][StoreNext]_vars

(***************************************************************************)
(* Cascade: claim C15                                                      *)
(***************************************************************************)
\* C15: a step that deletes a workout removes exactly the workout_exercises
\* rows of that workout and no exercises row; in every state each
\* workout_exercises row names a workout and an exercise that exist.
C15_CascadeKeepsIntegrity ==
  /\ [](\A r \in workout_exercises : r.workout_id \in workouts /\ r.exercise_id \in exercises)
  /\ [][ /\ exercises \subseteq exercises'
         /\ \A w \in workouts \ workouts' :
              workout_exercises' = { r \in workout_exercises : r.workout_id # w } ]_vars

\* Workout w1 was deleted after rows had been inserted; a row of w2 is left
\* and both exercises are still there.
C15_Witness ==
  /\ "w1" \notin workouts
  /\ nextId = MaxStoreRows + 1
  /\ Cardinality(workout_exercises) = 1
  /\ \E r \in workout_exercises : r.workout_id = "w2" /\ r.id = 1
  /\ exercises = ExerciseIds

(***************************************************************************)
(* order_index: claims C1 - C3                                             *)
(***************************************************************************)
\* View v issues an add in this step.
AddIssued(v) ==
  /\ Len(reqs'[v]) = Len(reqs[v]) + 1
  /\ reqs'[v][Len(reqs'[v])].op = "insert"

IssuedRow(v) == Val(reqs'[v][Len(reqs'[v])].row)

\* C1: the order_index of an insert is the number of workout_exercises rows
\* of that workout at the time of the view's list read that precedes it.
C1_IndexIsCountAtRead ==
  [][\A v \in Views :
       (AddIssued(v) /\ lastRead[v] # Null) =>
         /\ Val(lastRead[v]).wid = IssuedRow(v).workout_id
         /\ IssuedRow(v).order_index = Val(lastRead[v]).count]_vars

InsertInFlight(v, i) ==
  /\ i \in 1..Len(reqs[v])
  /\ reqs[v][i].op = "insert"

\* C2: two adds on the same workout, each issued since its view's list was
\* last set, the views having read the same length, carry the same
\* order_index.
C2_RacingAddsShareIndex ==
  \A v1, v2 \in Views : \A i, j \in 1..MaxInFlight :
    ( /\ InsertInFlight(v1, i) /\ InsertInFlight(v2, j)
      /\ reqs[v1][i].fresh /\ reqs[v2][j].fresh
      /\ reqs[v1][i].wid = reqs[v2][j].wid
      /\ lastRead[v1] = lastRead[v2] )
    => Val(reqs[v1][i].row).order_index = Val(reqs[v2][j].row).order_index

\* Two rows of one workout carry the same order_index, inserted by two adds
\* of one view that are both still awaiting their answer.
C2_Witness ==
  \E v \in Views :
    /\ Len(reqs[v]) = 2
    /\ \A i \in 1..2 : reqs[v][i].op = "insert" /\ reqs[v][i].stage = "ok" /\ reqs[v][i].fresh
    /\ \E r1, r2 \in workout_exercises :
         /\ r1.id # r2.id
         /\ r1.workout_id = r2.workout_id
         /\ r1.order_index = r2.order_index

\* The same from two views: each view has one add awaiting its answer.
C2_TwoViews ==
  /\ \A v \in Views :
       Len(reqs[v]) = 1 /\ reqs[v][1].op = "insert" /\ reqs[v][1].stage = "ok" /\ reqs[v][1].fresh
  /\ \E r1, r2 \in workout_exercises :
       /\ r1.id # r2.id
       /\ r1.workout_id = r2.workout_id
       /\ r1.order_index = r2.order_index

\* C3: a newly added exercise comes after every exercise the workout already
\* has in the order of order_index (rows of equal order_index taken in
\* insertion order).
C3_AppendOrder ==
  \A r1, r2 \in workout_exercises :
    (r1.workout_id = r2.workout_id /\ r1.id < r2.id) => r1.order_index <= r2.order_index

(***************************************************************************)
(* Leaving a page: claim C19.  A run follows the visits of one page, the   *)
(* workout page (one view) or the progress page (no workout view); the     *)
(* page may be left while its calls are in flight and visited again, which *)
(* mounts a new component instance.                                        *)
(***************************************************************************)
LeaveInit ==
  /\ PInit
  /\ DInit
  /\ \/ WInitOf({"a"}, {"w1"}, MaxRows)
     \/ WInitOf({}, {"w1"}, MaxRows)
  /\ toast = ""
  /\ errlog = ""

LeaveNext ==
  \/ WNext
  \/ \E v \in Views : WUnmount(v) /\ UNCHANGED <<pvars, dvars>>
  \/ Views = {} /\ PNext
  \/ Views = {} /\ PUnmount /\ UNCHANGED <<dvars, storevars, wvars>>

SpecLeave == LeaveInit /\ [][LeaveNext]_vars

\* The answer (or failure) of a call whose component instance has unmounted
\* reaches its continuation in this step.
LateAnswerW(v) ==
  \E i \in 1..MaxInFlight : (WDeliver(v, i) \/ WFail(v, i)) /\ ~reqs[v][i].live
LateAnswerP ==
  \E i \in 1..MaxPInFlight : (PDeliverSelect(i) \/ PDeliverInsert(i)) /\ ~pReqs[i].live

NotFoundShown(v) == mounted[v] /\ ~loading[v] /\ workout[v] = Null

\* The load of view v ends in this step with the answer to its list select,
\* its workout select having returned no row.
NotFoundLoadEnds(v) ==
  /\ \E i \in 1..MaxInFlight : WDeliver(v, i) /\ reqs[v][i].op = "selectExercises"
  /\ workout[v] = Null

\* C18: a load whose workout select returns no row and no error ends with
\* "Workout not found", loading false and no notification or log; and
\* "Workout not found" is shown only for a workout that does not exist.
C18_NotFoundIsNotError ==
  /\ [][\A v \in Views : NotFoundLoadEnds(v) =>
          (NotFoundShown(v)' /\ toast' = "" /\ errlog' = "")]_vars
  /\ [](\A v \in Views : NotFoundShown(v) => workoutId[v] \notin workouts)

(***************************************************************************)
(* Loading flag: claim C20                                                 *)
(***************************************************************************)
\* A select of loadWorkoutData of view v is awaiting its answer.
LoadInFlight(v) ==
  \E i \in 1..Len(reqs[v]) : reqs[v][i].op \in {"selectWorkout", "selectExercises"}

\* C20: a mounted view's loading flag is true exactly while one of its
\* loads is in flight, also when several of its loads overlap.
C20_LoadingWhileInFlight ==
  \A v \in Views : mounted[v] => (loading[v] <=> LoadInFlight(v))

(***************************************************************************)
(* The list a load shows: claims C21, C24.  One view whose route moves     *)
(* between the workouts while loads, adds and deletes are in flight; no    *)
(* store call fails.                                                       *)
(***************************************************************************)
NavInit ==
  /\ PInit
  /\ DInit
  /\ WInitOf({"a"}, {"w1"}, MaxRows)
  /\ toast = ""
  /\ errlog = ""

NavNext ==
  /\ \/ \E v \in Views : WMount(v)
     \/ \E v \in Views, w \in StoredWorkouts : WNavigate(v, w)
     \/ \E v \in Views, b \in BOOLEAN : WSetShowExerciseSelector(v, b)
     \/ \E v \in Views, e \in Exercises : WAddExercise(v, e)
     \/ \E v \in Views, k \in 1..MaxRows : WDeleteExercise(v, k)
     \/ \E v \in Views, i \in 1..MaxInFlight : WServe(v, i)
     \/ \E v \in Views, i \in 1..MaxInFlight : WDeliver(v, i)
  /\ UNCHANGED <<pvars, dvars>>

SpecNav == NavInit /\ [][NavNext]_vars

\* The rows of list d are in non-decreasing order of order_index.
InIndexOrder(d) == \A j \in 1..(Len(d) - 1) : d[j].order_index <= d[j + 1].order_index

\* C21: the list select of a load is answered with exactly the
\* workout_exercises rows of the workout the load was started for, in
\* non-decreasing order of order_index, and that answer is the list the view
\* shows when the load ends; no row of another workout is in it.
C21_ListIsWorkoutsRows ==
  [][\A v \in Views : \A i \in 1..MaxInFlight :
       /\ (WServe(v, i) /\ reqs[v][i].op = "selectExercises") =>
            LET d == Val(reqs'[v][i].data)
            IN /\ { d[j] : j \in 1..Len(d) } =
                    { r \in workout_exercises : r.workout_id = reqs[v][i].wid }
               /\ Len(d) = Cardinality({ r \in workout_exercises : r.workout_id = reqs[v][i].wid })
               /\ InIndexOrder(d)
       /\ (WDeliver(v, i) /\ reqs[v][i].op = "selectExercises") =>
            /\ workoutExercises'[v] = Val(reqs[v][i].data)
            /\ ~loading'[v]
            /\ \A j \in 1..Len(workoutExercises'[v]) :
                 workoutExercises'[v][j].workout_id = reqs[v][i].wid]_vars

\* Both workouts have a row, and the view shows the one row of its workout.
C21_Witness ==
  \E v \in Views :
    /\ Shown(v) /\ Idle(v)
    /\ \E r \in workout_exercises : r.workout_id # workoutId[v]
    /\ Len(workoutExercises[v]) = 1
    /\ workoutExercises[v][1].workout_id = workoutId[v]

\* C24: once every answer has arrived, the view shows the workout of its
\* current workoutId and the list answered to the load issued last, which
\* (no call failing, one view) is the workout's rows in the store.
C24_LatestLoadWins ==
  \A v \in Views :
    (mounted[v] /\ Idle(v)) =>
      /\ workout[v] = Some(workoutId[v])
      /\ { workoutExercises[v][j] : j \in 1..Len(workoutExercises[v]) } =
           { r \in workout_exercises : r.workout_id = workoutId[v] }

(***************************************************************************)
(* Delete: claim C22                                                       *)
(***************************************************************************)
\* The store executes the delete of view v's i-th call in this step.
DeleteServed(v, i) == WServe(v, i) /\ reqs[v][i].op = "delete"

\* C22: the delete of a workout_exercise removes the row of the given id and
\* nothing else: every other row, of any workout, stays as it was, its
\* order_index included, and no workout or exercise row changes.
C22_DeleteRemovesOneRow ==
  [][\A v \in Views : \A i \in 1..MaxInFlight :
       DeleteServed(v, i) =>
         /\ workout_exercises' \subseteq workout_exercises
         /\ \A r \in workout_exercises \ workout_exercises' : r.id = reqs[v][i].id
         /\ \A r \in workout_exercises' : r.id # reqs[v][i].id
         /\ workouts' = workouts
         /\ exercises' = exercises]_vars

\* The first of a workout's two rows has been deleted; the row left keeps
\* order_index 1.
C22_Witness ==
  \E v \in Views : \E i \in 1..Len(reqs[v]) :
    /\ reqs[v][i].op = "delete" /\ reqs[v][i].stage = "ok"
    /\ Cardinality(workout_exercises) = 1
    /\ \E r \in workout_exercises : r.order_index = 1 /\ r.id # reqs[v][i].id

(***************************************************************************)
(* The progress delta over the lists a load can return.  The store may     *)
(* hold any rows (it is publicly writable); a load returns them in date    *)
(* order and the page renders weightChange and bodyFatChange from them.    *)
(***************************************************************************)
MetricRows ==
  { [date |-> 1, weight |-> Some(1800), body_fat_percentage |-> Some(152), notes |-> Null],
    [date |-> 2, weight |-> Some(1780), body_fat_percentage |-> Some(155), notes |-> Null],
    [date |-> 2, weight |-> Some(1800), body_fat_percentage |-> Some(152), notes |-> Null],
    [date |-> 1, weight |-> Some(0), body_fat_percentage |-> Some(0), notes |-> Null],
    [date |-> 1, weight |-> Some(1780), body_fat_percentage |-> Null, notes |-> Null],
    [date |-> 2, weight |-> Null, body_fat_percentage |-> Null, notes |-> Null] }

\* Lists of at most n rows.
RECURSIVE MetricLists(_)
MetricLists(n) ==
  IF n <= 0 THEN {<<>>}
  ELSE LET shorter == MetricLists(n - 1)
       IN shorter \cup { <<r>> \o m : r \in MetricRows, m \in shorter }

SeqToBag(m) == [r \in {m[i] : i \in 1..Len(m)} |-> Cardinality({i \in 1..Len(m) : m[i] = r})]

\* loadMetrics against a store holding the rows of `rows`, select succeeding.
GCLoad(rows) ==
  /\ \E data \in OrderedByDate(SeqToBag(rows)) : SetMetrics(data)
  /\ pLoading' = FALSE
  /\ UNCHANGED <<progress_metrics, showDialog, formData, pMounted, pReqs>>
  /\ Quiet

GCNext ==
  /\ \E rows \in MetricLists(MaxEntries) : GCLoad(rows)
  /\ UNCHANGED <<dvars, storevars, wvars>>

(***************************************************************************)
(* The dashboard aggregation over the lists the stats select can return.   *)
(***************************************************************************)
NowDay == 9
FetchedRows ==
  { [duration_minutes |-> Num(2), date |-> 1],
    [duration_minutes |-> Num(3), date |-> 2],
    [duration_minutes |-> Num(60), date |-> 9],
    [duration_minutes |-> Num(0), date |-> 10],
    [duration_minutes |-> JsNull, date |-> 3],
    [duration_minutes |-> JsUndefined, date |-> 5] }

RECURSIVE FetchedLists(_)
FetchedLists(n) ==
  IF n <= 0 THEN {<<>>}
  ELSE LET shorter == FetchedLists(n - 1)
       IN shorter \cup { <<r>> \o ws : r \in FetchedRows, ws \in shorter }

Nows == { NowDay * TicksPerDay + k : k \in 0..(TicksPerDay - 1) }

\* The stats select has answered without an error; its data is a list or null.
StatsInit ==
  /\ PInit
  /\ WInit
  /\ stats = ZeroStats
  /\ dLoading = TRUE
  /\ allWorkouts \in {Null} \cup { Some(ws) : ws \in FetchedLists(MaxFetched) }
  /\ now \in Nows
  /\ dMounted = TRUE
  /\ homeWorkouts = <<>>
  /\ hReqs = <<>>
  /\ categories = <<>>
  /\ libExercises = <<>>
  /\ lLoading = TRUE
  /\ lMounted = FALSE
  /\ lReqs = <<>>
  /\ nOpen = FALSE
  /\ nLoading = FALSE
  /\ nForm = NewWorkoutForm
  /\ nReqs = <<>>
  /\ toast = ""
  /\ errlog = ""

\* loadDashboardData from the answer of the stats select to its end
StatsApply ==
  /\ dLoading
  /\ stats' = ComputeStats(allWorkouts, now)
  /\ dLoading' = FALSE
  /\ UNCHANGED <<allWorkouts, now, hvars, nvars, lvars, pvars, storevars, wvars>>
  /\ Quiet

StatsNext == StatsApply

SpecStats == StatsInit /\ [][StatsNext]_vars

(***************************************************************************)
(* Home (src/app/page.tsx): loadDashboardData as store calls, and the      *)
(* ExerciseLibrary of its Exercises tab.  The workouts table is written by *)
(* any client, so each select may be answered with any list of rows.       *)
(***************************************************************************)
MaxHomeFetched == 1    \* rows of a list answered to Home's selects (SpecHome, SpecCreate)

\* Rows as the store returns them: an old workout and one of today.
StoredRows == { r \in FetchedRows : r.date \in {2, NowDay} }

RECURSIVE StoredLists(_)
StoredLists(n) ==
  IF n <= 0 THEN {<<>>}
  ELSE LET shorter == StoredLists(n - 1)
       IN shorter \cup { <<r>> \o ws : r \in StoredRows, ws \in shorter }

\* .order("date", { ascending: false }).limit(6)
RecentLists ==
  { ws \in StoredLists(MaxHomeFetched) : \A i \in 1..(Len(ws) - 1) : ws[i].date >= ws[i + 1].date }

CategoryLists == { <<>>, <<"c1">> }
ExerciseLists == { <<>>, <<"e1">> }

HomeReq(o) == [op |-> o, stage |-> "sent", data |-> Null, cats |-> Null]

\* useEffect(() => { loadDashboardData() }, []): setLoading(true) and the
\* select of the recent workouts is issued
DMount ==
  /\ ~dMounted
  /\ dMounted' = TRUE
  /\ dLoading' = TRUE
  /\ hReqs' = Append(hReqs, HomeReq("selectRecent"))
  /\ UNCHANGED <<stats, allWorkouts, now, homeWorkouts, lvars, nvars>>
  /\ Quiet

\* The store answers the i-th call of loadDashboardData without an error.
DServe(i) ==
  /\ i \in 1..Len(hReqs)
  /\ hReqs[i].stage = "sent"
  /\ \E ws \in (IF hReqs[i].op = "selectRecent" THEN RecentLists ELSE StoredLists(MaxHomeFetched)) :
       hReqs' = ReplaceAt(hReqs, i, [hReqs[i] EXCEPT !.stage = "ok", !.data = Some(ws)])
  /\ UNCHANGED <<stats, dLoading, allWorkouts, now, dMounted, homeWorkouts, lvars, nvars>>
  /\ Quiet

\* loadDashboardData after an await that answered without an error
DDeliver(i) ==
  /\ i \in 1..Len(hReqs)
  /\ hReqs[i].stage = "ok"
  /\ IF hReqs[i].op = "selectRecent"
     THEN /\ homeWorkouts' = Val(hReqs[i].data)
          /\ hReqs' = ReplaceAt(hReqs, i, HomeReq("selectStats"))
          /\ UNCHANGED <<stats, dLoading, allWorkouts, now>>
     ELSE /\ allWorkouts' = hReqs[i].data
          /\ now' \in Nows
          /\ stats' = ComputeStats(hReqs[i].data, now')
          /\ dLoading' = FALSE
          /\ hReqs' = RemoveAt(hReqs, i)
          /\ UNCHANGED homeWorkouts
  /\ UNCHANGED <<dMounted, lvars, nvars>>
  /\ Quiet

\* The i-th call of loadDashboardData fails (error object or throw): the
\* catch block logs, the finally block clears loading.
DFail_ClearsStats(i) ==
  /\ i \in 1..Len(hReqs)
  /\ hReqs[i].stage = "sent"
  /\ hReqs' = RemoveAt(hReqs, i)
  /\ errlog' = "Error loading dashboard data:"
  /\ toast' = ""
  /\ dLoading' = FALSE
  /\ stats' = ZeroStats
  /\ UNCHANGED <<allWorkouts, now, dMounted, homeWorkouts, lvars, nvars>>
DFail(i) ==
  /\ i \in 1..Len(hReqs)
  /\ hReqs[i].stage = "sent"
  /\ hReqs' = RemoveAt(hReqs, i)
  /\ errlog' = "Error loading dashboard data:"
  /\ toast' = ""
  /\ dLoading' = FALSE
  /\ UNCHANGED <<stats, allWorkouts, now, dMounted, homeWorkouts, lvars, nvars>>

\* The Exercises tab is opened: ExerciseLibrary mounts and loadExercises
\* runs up to its first await.
LMount ==
  /\ dMounted
  /\ ~lMounted
  /\ lMounted' = TRUE
  /\ lLoading' = TRUE
  /\ lReqs' = Append(lReqs, HomeReq("selectCategories"))
  /\ UNCHANGED <<stats, dLoading, allWorkouts, now, hvars, nvars, categories, libExercises>>
  /\ Quiet

\* The store answers the i-th call of loadExercises: data, or an error
\* object with null data.
LServe(i) ==
  /\ i \in 1..Len(lReqs)
  /\ lReqs[i].stage = "sent"
  /\ \/ \E d \in (IF lReqs[i].op = "selectCategories" THEN CategoryLists ELSE ExerciseLists) :
          lReqs' = ReplaceAt(lReqs, i, [lReqs[i] EXCEPT !.stage = "ok", !.data = Some(d)])
     \/ lReqs' = ReplaceAt(lReqs, i, [lReqs[i] EXCEPT !.stage = "error", !.data = Null])
  /\ UNCHANGED <<stats, dLoading, allWorkouts, now, hvars, nvars, categories, libExercises, lLoading, lMounted>>
  /\ Quiet

\* loadExercises after an await that returned; only `data` is destructured,
\* the error of the answer is not read.
LDeliver(i) ==
  /\ i \in 1..Len(lReqs)
  /\ lReqs[i].stage \in {"ok", "error"}
  /\ IF lReqs[i].op = "selectCategories"
     THEN /\ lReqs' = ReplaceAt(lReqs, i, [HomeReq("selectExercises") EXCEPT !.cats = lReqs[i].data])
          /\ UNCHANGED <<categories, libExercises, lLoading>>
     ELSE /\ categories' = (IF IsNull(lReqs[i].cats) THEN <<>> ELSE Val(lReqs[i].cats))
          /\ libExercises' = (IF IsNull(lReqs[i].data) THEN <<>> ELSE Val(lReqs[i].data))
          /\ lLoading' = FALSE
          /\ lReqs' = RemoveAt(lReqs, i)
  /\ UNCHANGED <<stats, dLoading, allWorkouts, now, hvars, nvars, lMounted>>
  /\ Quiet

\* The i-th call of loadExercises throws: the catch block logs, the finally
\* block clears loading.
LThrow(i) ==
  /\ i \in 1..Len(lReqs)
  /\ lReqs[i].stage = "sent"
  /\ lReqs' = RemoveAt(lReqs, i)
  /\ errlog' = "Error loading exercises:"
  /\ toast' = ""
  /\ lLoading' = FALSE
  /\ UNCHANGED <<stats, dLoading, allWorkouts, now, hvars, nvars, categories, libExercises, lMounted>>

MaxHInFlight == 2      \* store calls of Home, and of its library, in flight

HomeNext ==
  /\ \/ DMount
     \/ \E i \in 1..MaxHInFlight : DServe(i)
     \/ \E i \in 1..MaxHInFlight : DDeliver(i)
     \/ \E i \in 1..MaxHInFlight : DFail(i)
     \/ LMount
     \/ \E i \in 1..MaxHInFlight : LServe(i)
     \/ \E i \in 1..MaxHInFlight : LDeliver(i)
     \/ \E i \in 1..MaxHInFlight : LThrow(i)
  /\ UNCHANGED <<pvars, storevars, wvars>>

SpecHome == Init /\ [][HomeNext]_vars

(***************************************************************************)
(* NewWorkoutDialog (src/unnamed/part_002), a child of Home whose          *)
(* onWorkoutCreated is loadDashboardData.                                  *)
(***************************************************************************)
\* What the user may have typed into the form.
WorkoutForms ==
  { NewWorkoutForm,
    [name |-> <<"L", "e", "g", "s">>, date |-> 8, duration_minutes |-> 45, notes |-> <<>>] }

\* ids gen_random_uuid() gives to created workouts
NewWorkoutIds == {"w3", "w4"}

\* DialogTrigger, the Cancel button and the dialog's onOpenChange
NSetOpen(b) ==
  /\ dMounted
  /\ nOpen # b
  /\ nOpen' = b
  /\ UNCHANGED <<nLoading, nForm, nReqs>>

\* the inputs' onChange handlers
NEditForm(f) ==
  /\ dMounted /\ nOpen
  /\ nForm # f
  /\ nForm' = f
  /\ UNCHANGED <<nOpen, nLoading, nReqs>>

\* The form can be submitted: the submit button is not disabled and the
\* required name is filled in.
CanSubmit_Always == nOpen /\ nForm.name # <<>>
CanSubmit == nOpen /\ ~nLoading /\ nForm.name # <<>>

\* handleSubmit up to its await: setLoading(true), the insert is issued
NSubmit ==
  /\ dMounted
  /\ CanSubmit
  /\ Len(nReqs) < MaxNInFlight
  /\ nLoading' = TRUE
  /\ nReqs' = Append(nReqs, [stage |-> "sent", row |-> nForm])
  /\ UNCHANGED <<nOpen, nForm>>

\* The store executes the i-th insert: the workout is created.
NServe(i) ==
  /\ i \in 1..Len(nReqs)
  /\ nReqs[i].stage = "sent"
  /\ \E w \in NewWorkoutIds \ workouts : workouts' = workouts \cup {w}
  /\ nReqs' = ReplaceAt(nReqs, i, [nReqs[i] EXCEPT !.stage = "ok"])
  /\ UNCHANGED <<workout_exercises, exercises, nextId, idCap>>
  /\ UNCHANGED <<nOpen, nLoading, nForm>>
  /\ UNCHANGED <<stats, dLoading, allWorkouts, now, hvars, lvars>>
  /\ Quiet

\* handleSubmit after its await, the insert having succeeded: toast, close,
\* reset, onWorkoutCreated() = loadDashboardData up to its await, finally
NDeliver(i) ==
  /\ i \in 1..Len(nReqs)
  /\ nReqs[i].stage = "ok"
  /\ Len(hReqs) < MaxHInFlight
  /\ toast' = "Workout created successfully!"
  /\ errlog' = ""
  /\ nOpen' = FALSE
  /\ nForm' = NewWorkoutForm
  /\ dLoading' = TRUE
  /\ hReqs' = Append(hReqs, HomeReq("selectRecent"))
  /\ nLoading' = FALSE
  /\ nReqs' = RemoveAt(nReqs, i)
  /\ UNCHANGED <<stats, allWorkouts, now, dMounted, homeWorkouts, lvars, storevars>>

\* The i-th insert fails (error object or throw): catch and finally
NFail(i) ==
  /\ i \in 1..Len(nReqs)
  /\ nReqs[i].stage = "sent"
  /\ errlog' = "Error creating workout:"
  /\ toast' = "Failed to create workout"
  /\ nLoading' = FALSE
  /\ nReqs' = RemoveAt(nReqs, i)
  /\ UNCHANGED <<nOpen, nForm>>
  /\ UNCHANGED <<stats, dLoading, allWorkouts, now, hvars, lvars, storevars>>

CreateNext ==
  /\ \/ DMount /\ UNCHANGED storevars
     \/ \E i \in 1..MaxHInFlight : DServe(i) /\ UNCHANGED storevars
     \/ \E i \in 1..MaxHInFlight : DDeliver(i) /\ UNCHANGED storevars
     \/ \E i \in 1..MaxHInFlight : DFail(i) /\ UNCHANGED storevars
     \/ \E b \in BOOLEAN : NSetOpen(b) /\ UNCHANGED <<stats, dLoading, allWorkouts, now, hvars, lvars, storevars>> /\ Quiet
     \/ \E f \in WorkoutForms : NEditForm(f) /\ UNCHANGED <<stats, dLoading, allWorkouts, now, hvars, lvars, storevars>> /\ Quiet
     \/ NSubmit /\ UNCHANGED <<stats, dLoading, allWorkouts, now, hvars, lvars, storevars>> /\ Quiet
     \/ \E i \in 1..MaxNInFlight : NServe(i)
     \/ \E i \in 1..MaxNInFlight : NDeliver(i)
     \/ \E i \in 1..MaxNInFlight : NFail(i)
  /\ UNCHANGED <<pvars, wvars>>

SpecCreate == Init /\ [][CreateNext]_vars

(***************************************************************************)
(* Sequential adds: claim C25                                              *)
(***************************************************************************)
\* C25: when a workout has only had exercises added one after the other,
\* its n rows carry the order_index values 0..n-1, no two rows the same
\* one, and a row inserted earlier (smaller id) has the smaller order_index.
C25_SequentialAddsNumberRows ==
  LET rows == RowsOf("w1")
  IN /\ { r.order_index : r \in rows } = 0..(Cardinality(rows) - 1)
     /\ \A r, q \in rows : r.order_index = q.order_index => r = q
     /\ \A r, q \in rows : r.id < q.id => r.order_index < q.order_index

\* MaxSeqRows exercises have been added and the last reload has completed.
C25_Witness ==
  /\ Cardinality(RowsOf("w1")) = MaxSeqRows
  /\ Idle("a")
  /\ Len(workoutExercises["a"]) = MaxSeqRows
  /\ ~loading["a"]

(***************************************************************************)
(* Confirming the selector: claim C28                                      *)
(***************************************************************************)
\* C28: confirming with an exercise selected starts one insert for that
\* exercise with the details of that moment, and in the same step clears
\* the selection, puts the details back to 3/10/0 and closes the dialog,
\* the store not yet written; an insert that fails afterwards leaves the
\* dialog, the selection and the details as they are; confirming with
\* nothing selected changes no state.
C28_ConfirmClosesAtOnce ==
  [][\A v \in Views :
       /\ (XHandleAddExercise(v) /\ selectedExercise[v] # Null) =>
            /\ Len(reqs'[v]) = Len(reqs[v]) + 1
            /\ \A j \in 1..Len(reqs[v]) : reqs'[v][j] = reqs[v][j]
            /\ LET r == reqs'[v][Len(reqs'[v])]
               IN /\ r.op = "insert" /\ r.stage = "sent"
                  /\ Val(r.row).exercise_id = Val(selectedExercise[v])
                  /\ Val(r.row).workout_id = workoutId[v]
                  /\ Val(r.row).sets = details[v].sets
                  /\ Val(r.row).reps = details[v].reps
                  /\ Val(r.row).weight = details[v].weight
            /\ selectedExercise'[v] = Null
            /\ details'[v] = [sets |-> 3, reps |-> 10, weight |-> 0]
            /\ ~showExerciseSelector'[v]
            /\ UNCHANGED storevars
       /\ (XHandleAddExercise(v) /\ selectedExercise[v] = Null) =>
            UNCHANGED <<pvars, dvars, storevars, wvars>>
       /\ \A i \in 1..MaxInFlight :
            (WFail(v, i) /\ reqs[v][i].op = "insert") =>
               /\ showExerciseSelector'[v] = showExerciseSelector[v]
               /\ selectedExercise'[v] = selectedExercise[v]
               /\ details'[v] = details[v]
               /\ UNCHANGED storevars]_vars

\* An insert with edited details is in flight, not yet answered, and the
\* dialog is closed with its selection cleared and its details back to the
\* initial ones.
C28_Witness ==
  \E v \in Views : \E i \in 1..Len(reqs[v]) :
    /\ reqs[v][i].op = "insert" /\ reqs[v][i].stage = "sent"
    /\ Val(reqs[v][i].row).sets = 4 /\ Val(reqs[v][i].row).weight = 4
    /\ ~showExerciseSelector[v]
    /\ selectedExercise[v] = Null
    /\ details[v] = DefaultDetails

(***************************************************************************)
(* Log Progress: claim C27                                                 *)
(***************************************************************************)
\* The progress page with forms of every kind typed in.
SubmitNext ==
  \/ PNext
  \/ \E f \in PartialForms : PEditForm(f) /\ UNCHANGED <<dvars, storevars, wvars>>

SpecSubmit == Init /\ [][SubmitNext]_vars

\* the loadMetrics calls among the calls in flight
Reloads(calls) == { j \in 1..Len(calls) : calls[j].op = "select" }

\* C27: a submit sends a row whose weight and body fat are null when the
\* input is empty and the parsed number otherwise; when the insert has
\* succeeded the dialog closes, weight, body fat and notes are empty again
\* and one loadMetrics is started; when it has failed the dialog, the form
\* and the metrics stay as they are and no loadMetrics is started.
C27_SubmitOutcome ==
  [][/\ PSubmit =>
          LET row == Val(pReqs'[Len(pReqs')].row)
          IN /\ (formData.weight = <<>>) <=> (row.weight = Null)
             /\ (formData.body_fat_percentage = <<>>) <=> (row.body_fat_percentage = Null)
             /\ formData.weight # <<>> => row.weight = Some(parseFloat(formData.weight))
             /\ formData.body_fat_percentage # <<>> =>
                  row.body_fat_percentage = Some(parseFloat(formData.body_fat_percentage))
             /\ row.date = formData.date
     /\ \A i \in 1..MaxPInFlight :
          /\ (PServeInsert(i) /\ pReqs'[i].stage = "ok") =>
               progress_metrics' = progress_metrics (+) SetToBag({Val(pReqs[i].row)})
          /\ (PDeliverInsert(i) /\ pReqs[i].stage = "ok") =>
               /\ ~showDialog'
               /\ formData'.weight = <<>> /\ formData'.body_fat_percentage = <<>>
               /\ formData'.notes = <<>>
               /\ Cardinality(Reloads(pReqs')) = Cardinality(Reloads(pReqs)) + 1
               /\ pReqs'[Len(pReqs')].op = "select" /\ pReqs'[Len(pReqs')].stage = "sent"
               /\ pLoading'
               /\ metrics' = metrics
          /\ (PDeliverInsert(i) /\ pReqs[i].stage = "error") =>
               /\ showDialog' = showDialog
               /\ formData' = formData
               /\ metrics' = metrics
               /\ pLoading' = pLoading
               /\ Cardinality(Reloads(pReqs')) = Cardinality(Reloads(pReqs))]_vars

\* A form with the weight left empty has been saved: the stored row has no
\* weight, the dialog is closed, the form is empty and the one reload is
\* in flight.
C27_Witness ==
  /\ toast = "Progress recorded!"
  /\ \E r \in BagToSet(progress_metrics) : r.weight = Null /\ r.body_fat_percentage = Some(152)
  /\ ~showDialog
  /\ formData = EmptyForm
  /\ Len(pReqs) = 1 /\ pReqs[1].op = "select" /\ pReqs[1].stage = "sent"

(***************************************************************************)
(* NewWorkoutDialog: claim C26                                             *)
(***************************************************************************)
\* C26: a dialog has at most one insert in flight and its loading flag is
\* true exactly while it has one; a successful insert closes the dialog,
\* resets the form and calls onWorkoutCreated once (one dashboard load is
\* started); a failed insert leaves open and the form as they are and
\* starts no load.
C26_OneInsertAtATime ==
  /\ [](Len(nReqs) <= 1 /\ (nLoading <=> nReqs # <<>>))
  /\ [][\A i \in 1..MaxNInFlight :
          /\ NDeliver(i) =>
               /\ ~nOpen' /\ nForm' = NewWorkoutForm /\ ~nLoading'
               /\ Len(hReqs') = Len(hReqs) + 1
               /\ hReqs'[Len(hReqs')] = HomeReq("selectRecent")
               /\ \A j \in 1..Len(hReqs) : hReqs'[j] = hReqs[j]
          /\ NFail(i) =>
               /\ nOpen' = nOpen /\ nForm' = nForm /\ ~nLoading'
               /\ hReqs' = hReqs]_vars

\* A workout has been created from an edited form: the dialog is closed,
\* the form is back to its initial values and the dashboard is reloading.
C26_Witness ==
  /\ toast = "Workout created successfully!"
  /\ workouts \cap NewWorkoutIds # {}
  /\ ~nOpen /\ ~nLoading /\ nForm = NewWorkoutForm /\ nReqs = <<>>
  /\ dLoading
  /\ hReqs # <<>> /\ hReqs[Len(hReqs)] = HomeReq("selectRecent")

(***************************************************************************)
(* A load whose second query fails: claim C23                              *)
(***************************************************************************)
\* One run is about one page: the detail view "a", or Home with its
\* NewWorkoutDialog (no detail view).
PartialInit ==
  /\ PInit
  /\ DInit
  /\ \/ WInitOf({"a"}, {"w1"}, MaxRows)
     \/ WInitOf({}, {"w1"}, MaxRows)
  /\ toast = ""
  /\ errlog = ""

PartialNext ==
  \/ WNext
  \/ Views = {} /\ CreateNext

SpecPartial == PartialInit /\ [][PartialNext]_vars

\* C23: the state fed by the first query of a load is replaced when that
\* query has answered, and a failure of the second query leaves the state
\* fed by the second as it was and does not take back the first: on the
\* dashboard the recent workouts are the new ones and the four stats keep
\* their values, on the detail page the workout is the new one and the
\* exercise list keeps its contents.
C23_SecondFailureKeepsSecondState ==
  [][/\ \A i \in 1..MaxHInFlight :
          /\ (DDeliver(i) /\ hReqs[i].op = "selectRecent") =>
               /\ homeWorkouts' = Val(hReqs[i].data)
               /\ stats' = stats
               /\ hReqs'[i] = HomeReq("selectStats")
          /\ (DFail(i) /\ hReqs[i].op = "selectStats") =>
               /\ homeWorkouts' = homeWorkouts
               /\ stats' = stats
               /\ ~dLoading'
     /\ \A v \in Views, i \in 1..MaxInFlight :
          /\ (WDeliver(v, i) /\ reqs[v][i].op = "selectWorkout") =>
               /\ workout'[v] = reqs[v][i].data
               /\ workoutExercises'[v] = workoutExercises[v]
               /\ reqs'[v][i] = ExercisesSelect(reqs[v][i].wid)
          /\ (WFail(v, i) /\ reqs[v][i].op = "selectExercises") =>
               /\ workout'[v] = workout[v]
               /\ workoutExercises'[v] = workoutExercises[v]
               /\ ~loading'[v]]_vars

\* The second query of a reload of the detail page has failed: the workout
\* is shown with the one exercise read before, the store has two.
C23_Witness ==
  /\ Views = {"a"}
  /\ errlog = "Error loading workout:"
  /\ workout["a"] = Some("w1")
  /\ Len(workoutExercises["a"]) = 1
  /\ lastRead["a"] = Some([wid |-> "w1", count |-> 2])
  /\ ~loading["a"]

(***************************************************************************)
(* Failures: claims C16, C17                                               *)
(***************************************************************************)
\* A call of Home or of its library fails in this step: it is answered with
\* an error object that the view now receives, or it throws.
HomeCallFails ==
  \/ \E i \in 1..MaxHInFlight : DFail(i)
  \/ \E i \in 1..MaxHInFlight : LThrow(i)
  \/ \E i \in 1..MaxHInFlight : LDeliver(i) /\ lReqs[i].stage = "error"

\* C16: a step in which a store call of a view fails logs the failure and
\* shows a notification.
C16_FailureLoggedAndNotified ==
  [][HomeCallFails => (errlog' # "" /\ toast' # "")]_vars

\* C17: a step in which a store call of a view fails issues no store call:
\* the action is abandoned, its following query is not sent.
C17_FailureAbandons ==
  [][HomeCallFails =>
       /\ \A j \in 1..Len(hReqs') : hReqs'[j].stage = "sent" => (j <= Len(hReqs) /\ hReqs[j] = hReqs'[j])
       /\ \A j \in 1..Len(lReqs') : lReqs'[j].stage = "sent" => (j <= Len(lReqs) /\ lReqs[j] = lReqs'[j])]_vars

(***************************************************************************)
(* Dashboard aggregation: claims C9, C10                                   *)
(***************************************************************************)
\* The sum of the durations, an absent one counted as 0.
RECURSIVE SumDurations(_)
SumDurations(ws) ==
  IF ws = <<>> THEN 0
  ELSE (IF Head(ws).duration_minutes.t = "number" THEN Head(ws).duration_minutes.v ELSE 0)
       + SumDurations(Tail(ws))

C10_AvgIsRounded ==
  ~dLoading =>
    LET tw == stats.totalWorkouts
        tm == stats.totalMinutes
        avg == stats.avgDuration
    IN /\ tw = (IF IsNull(allWorkouts) THEN 0 ELSE Len(Val(allWorkouts)))
       /\ tw = 0 => avg = 0
       /\ tw > 0 => (-tw < 2 * (avg * tw - tm) /\ 2 * (avg * tw - tm) <= tw)
       /\ (tw = 2 /\ tm = 5) => avg = 3

C10_Witness ==
  /\ ~dLoading
  /\ stats.totalWorkouts = 2
  /\ stats.totalMinutes = 5
  /\ stats.avgDuration = 3

(***************************************************************************)
(* Dashboard week window: claims C11 - C14                                 *)
(***************************************************************************)
\* C11: thisWeekWorkouts is the number of fetched workouts whose date (its
\* midnight) is at or after the cutoff, the clock minus 7 days; nothing
\* bounds the date from above, so a workout dated today or later counts.
C11_CountsFromCutoff ==
  (~dLoading /\ ~IsNull(allWorkouts)) =>
    LET ws == Val(allWorkouts)
    IN /\ stats.thisWeekWorkouts =
            Cardinality({i \in 1..Len(ws) : (ws[i].date + 7) * TicksPerDay >= now})
       /\ stats.thisWeekWorkouts >= Cardinality({i \in 1..Len(ws) : ws[i].date >= NowDay})

\* A workout dated tomorrow and one dated today are counted, an old one is not.
C11_Witness ==
  /\ ~dLoading /\ ~IsNull(allWorkouts)
  /\ Len(Val(allWorkouts)) = 3
  /\ {Val(allWorkouts)[i].date : i \in 1..3} = {NowDay + 1, NowDay, 1}
  /\ stats.thisWeekWorkouts = 2

\* C12: a workout dated the calendar day 7 days before the day of the load
\* is counted at whatever time of that day the dashboard is loaded.
C12_BoundaryDayIncluded ==
  (~dLoading /\ ~IsNull(allWorkouts)) =>
    LET ws == Val(allWorkouts)
        today == now \div TicksPerDay
    IN stats.thisWeekWorkouts >= Cardinality({i \in 1..Len(ws) : ws[i].date >= today - 7})

\* The counts for windows of 0 .. MaxWindow + 1 days are compared.
MaxWindow == 9

\* C13: for the fetched list and the clock of the load, a window of d + 1
\* days counts at least as many workouts as a window of d days, and the
\* 7-day count shown is the count of the 7-day window and is at most
\* totalWorkouts.
C13_MonotoneInWindow ==
  (~dLoading /\ ~IsNull(allWorkouts)) =>
    LET ws == Val(allWorkouts)
    IN /\ \A d \in 0..MaxWindow : CountSince(ws, now, d) <= CountSince(ws, now, d + 1)
       /\ stats.thisWeekWorkouts = CountSince(ws, now, WeekDays)
       /\ stats.thisWeekWorkouts <= stats.totalWorkouts

\* A list for which the count grows with the window: nothing in 1 day, one
\* workout in 7 days, two in 8.
C13_Witness ==
  /\ ~dLoading /\ ~IsNull(allWorkouts)
  /\ CountSince(Val(allWorkouts), now, 1) = 0
  /\ CountSince(Val(allWorkouts), now, 7) = 1
  /\ CountSince(Val(allWorkouts), now, 8) = 2
  /\ stats.thisWeekWorkouts = 1
  /\ stats.totalWorkouts = 3

\* C14: when the stats select returns an empty list, or null without an
\* error, the four stats are 0 and nothing is logged or notified.
C14_EmptyIsZero ==
  (~dLoading /\ (IsNull(allWorkouts) \/ Val(allWorkouts) = <<>>)) =>
    /\ stats.totalWorkouts = 0
    /\ stats.thisWeekWorkouts = 0
    /\ stats.totalMinutes = 0
    /\ stats.avgDuration = 0
    /\ toast = "" /\ errlog = ""

C14_Witness ==
  /\ ~dLoading
  /\ allWorkouts = Some(<<>>)
  /\ stats = ZeroStats

SpecGetChange == Init /\ [][GCNext]_vars

(***************************************************************************)
(* Progress delta: claims C4 - C8                                          *)
(***************************************************************************)
\* A tenths count rendered with one decimal place.
Dec1(t) == (IF t < 0 THEN "-" ELSE "") \o ToString(Abs(t) \div 10) \o "." \o ToString(Abs(t) % 10)

Rendered(f) == IF f = "weight" THEN weightChange ELSE bodyFatChange
LatestOf(f) == metrics[Len(metrics)][f]
PreviousOf(f) == metrics[Len(metrics) - 1][f]
Missing(x) == x = Null \/ x = Some(0)

\* C4: with fewer than 2 entries in the metrics list, getChange returns null
\* for weight and for body_fat_percentage.
C4_NullBelowTwoEntries ==
  \A f \in Fields : Len(metrics) < 2 => Rendered(f) = Null

C4_Witness ==
  /\ Len(metrics) = 1
  /\ ~pLoading
  /\ metrics[1].weight = Some(1800)
  /\ metrics[1].body_fat_percentage = Some(152)
  /\ weightChange = Null
  /\ bodyFatChange = Null

\* C5: with at least 2 entries, getChange returns null exactly when the
\* latest or the previous entry holds null or 0 in the selected field.
C5_NullIffMissing ==
  \A f \in Fields :
    Len(metrics) >= 2 =>
      ((Rendered(f) = Null) <=> (Missing(LatestOf(f)) \/ Missing(PreviousOf(f))))

C5_Witness ==
  /\ Len(metrics) >= 2
  /\ LatestOf("weight") = Some(0)
  /\ PreviousOf("weight") = Some(1800)
  /\ weightChange = Null

\* C6: a non-null result holds change = latest - previous and
\* percentChange = change / previous * 100, each as the nearest number with
\* one decimal place; 180 then 178 gives "-2.0", "-1.1", not positive.
C6_ChangeAndPercent ==
  \A f \in Fields :
    Rendered(f) # Null =>
      LET r == Val(Rendered(f))
          c == Val(LatestOf(f)) - Val(PreviousOf(f))
          p == Val(PreviousOf(f))
          lo == (1000 * c) \div p
      IN /\ r.value = Dec1(c)
         /\ \E t \in {lo, lo + 1} :
              /\ r.percent = Dec1(t)
              /\ 2 * Abs(t * p - 1000 * c) <= Abs(p)
         /\ (Val(PreviousOf(f)) = 1800 /\ Val(LatestOf(f)) = 1780) =>
              r = [value |-> "-2.0", percent |-> "-1.1", isPositive |-> FALSE]

C6_Witness ==
  /\ Len(metrics) >= 2
  /\ PreviousOf("weight") = Some(1800)
  /\ LatestOf("weight") = Some(1780)
  /\ weightChange = Some([value |-> "-2.0", percent |-> "-1.1", isPositive |-> FALSE])
  /\ bodyFatChange = Some([value |-> "0.3", percent |-> "2.0", isPositive |-> TRUE])

\* C7: isPositive is true exactly when latest - previous > 0; equal non-zero
\* values give a non-null result that is not positive.
C7_StrictlyPositive ==
  \A f \in Fields :
    /\ Rendered(f) # Null =>
         (Val(Rendered(f)).isPositive <=> Val(LatestOf(f)) > Val(PreviousOf(f)))
    /\ (Len(metrics) >= 2 /\ ~Missing(LatestOf(f)) /\ LatestOf(f) = PreviousOf(f)) =>
         (Rendered(f) # Null /\ ~Val(Rendered(f)).isPositive)

C7_Witness ==
  /\ Len(metrics) >= 2
  /\ LatestOf("weight") = Some(1800)
  /\ PreviousOf("weight") = Some(1800)
  /\ weightChange = Some([value |-> "0.0", percent |-> "0.0", isPositive |-> FALSE])

\* C8: the list is in ascending date order and only its last two entries
\* count: any list with the same last two entries gives the same result,
\* whatever the earlier entries hold.
C8_OnlyLastTwo ==
  /\ \A i, j \in 1..Len(metrics) : i < j => metrics[i].date <= metrics[j].date
  /\ Len(metrics) >= 2 =>
       \A earlier \in MetricLists(MaxEntries - 2) :
         \A f \in Fields :
           getChangeOf(earlier \o SubSeq(metrics, Len(metrics) - 1, Len(metrics)), f)
             = Rendered(f)

C8_Witness ==
  /\ Len(metrics) = 3
  /\ metrics[1].weight = Some(0)
  /\ metrics[1].body_fat_percentage = Some(0)
  /\ weightChange # Null
  /\ bodyFatChange # Null

====
